---- MODULE Spec2Model ----
(***************************************************************************)
(* A model of the LC-3 virtual machine of src/C/lc3.c: the image loader,   *)
(* the start-up sequence (signal handler, raw mode, reset), the            *)
(* fetch-decode-execute loop with one action per opcode and per trap, the  *)
(* memory-mapped keyboard, and the ways the process ends.                  *)
(*                                                                         *)
(* memory[] is 65536 words that start at zero (a C global); it is kept     *)
(* here as a function whose domain is the set of addresses holding a       *)
(* nonzero word, so that a state is small and its representation unique.   *)
(***************************************************************************)
EXTENDS Integers, Sequences, FiniteSets

(* ------------------------------ bounds --------------------------------- *)

\* The greatest number of image arguments on the command line.
MaxArgs == 2

\* The greatest number of instructions the loop executes in one run.
MaxSteps == 9

\* The greatest number of typed keys that wait unread on standard input.
MaxKeys == 1

(* ------------------------- program constants --------------------------- *)

MR_KBSR == \hFE00
MR_KBDR == \hFE02

R_R0 == 0
R_R7 == 7
R_PC == 8
R_COND == 9
R_COUNT == 10

FL_POS == 1
FL_ZRO == 2
FL_NEG == 4

OP_BR == 0
OP_ADD == 1
OP_LD == 2
OP_ST == 3
OP_JSR == 4
OP_AND == 5
OP_LDR == 6
OP_STR == 7
OP_RTI == 8
OP_NOT == 9
OP_LDI == 10
OP_STI == 11
OP_JMP == 12
OP_RES == 13
OP_LEA == 14
OP_TRAP == 15

TRAP_GETC == \h20
TRAP_OUT == \h21
TRAP_PUTS == \h22
TRAP_IN == \h23
TRAP_PUTSP == \h24
TRAP_HALT == \h25

MEMORY_MAX == 65536
PC_START == \h3000

(* --------------------------- 16-bit words ------------------------------ *)

\* A value converted to uint16_t.
U16(x) == x % 65536

RECURSIVE Pow2(_)
Pow2(n) == IF n = 0 THEN 1 ELSE 2 * Pow2(n - 1)

\* x >> n and x << n on non-negative ints (the C operands are promoted to int).
Shr(x, n) == x \div Pow2(n)
Shl(x, n) == x * Pow2(n)

RECURSIVE BitAnd(_, _)
BitAnd(a, b) ==
    IF a = 0 \/ b = 0 THEN 0
    ELSE (a % 2) * (b % 2) + 2 * BitAnd(a \div 2, b \div 2)

RECURSIVE BitOr(_, _)
BitOr(a, b) ==
    IF a = 0 THEN b
    ELSE IF b = 0 THEN a
    ELSE (IF a % 2 = 1 \/ b % 2 = 1 THEN 1 ELSE 0) + 2 * BitOr(a \div 2, b \div 2)

\* ~x on a uint16_t, converted back to uint16_t.
BitNot16(x) == 65535 - x

(* ------------------------------ the host ------------------------------- *)

\* The bytes a key press can deliver.
Keys == {0, \h41, \h80}

\* FileImage(origin, words): the bytes of an image file, big-endian.
RECURSIVE WordBytes(_)
WordBytes(ws) ==
    IF ws = <<>> THEN <<>>
    ELSE <<Head(ws) \div 256, Head(ws) % 256>> \o WordBytes(Tail(ws))

FileImage(origin, ws) == WordBytes(<<origin>> \o ws)

\* The files the command line can name, by path number. Path 0 names no file.
Disk ==
    << \* 1: ADD R1,R1,#5; ADD R2,R2,#-1; AND R3,R3,#0; NOT R4,R4;
       \*    ADD R0,R1,R2; AND R5,R2,R1; HALT
       FileImage(\h3000, <<\h1265, \h14BF, \h56E0, \h993F, \h1042, \h5A81, \hF025>>),
       \* 2: LEA R2,#5; BRz #1; BRp #4; 0; JSRR R2; JSRR R7; JMP R7; JSR #-4
       FileImage(\h3000, <<\hE405, \h0401, \h0204, \h0000, \h4080, \h41C0,
                           \hC1C0, \h4FFC>>),
       \* 3: ADD R1,R1,#0; BRz #-1
       FileImage(\h3000, <<\h1260, \h05FF>>),
       \* 4: LD R1,#6; STI R1,#6; LDI R2,#5; LEA R3,#4; LDR R4,R3,#-1;
       \*    STR R4,R3,#3; ST R3,#-7; the value x8001; the pointer x300A
       FileImage(\h3000, <<\h2206, \hB206, \hA405, \hE604, \h68FF, \h78C3,
                           \h37F9, \h8001, \h300A>>),
       \* 5: LD R1,#5; LDR R2,R1,#0; LDR R3,R1,#2; STI R1,#2; LDI R4,#1;
       \*    JMP R1; the pointer xFE00
       FileImage(\h3000, <<\h2205, \h6440, \h6642, \hB202, \hA801, \hC040,
                           \hFE00>>),
       \* 6: LEA R0,#7; PUTS; PUTSP; GETC; OUT; IN; TRAP x00; HALT; a string
       FileImage(\h3000, <<\hE007, \hF022, \hF024, \hF020, \hF021, \hF023,
                           \hF000, \hF025, \h0048, \h2169, \h4100>>),
       \* 7: ADD R0,R0,#-1; STR R0,R0,#1; PUTS; PUTSP; JMP R0
       FileImage(\h3000, <<\h103F, \h7001, \hF022, \hF024, \hC000>>),
       \* 8: one word for the last address and one more
       FileImage(\hFFFF, <<\h0041, \h0042>>),
       \* 9: origin 0
       FileImage(\h0000, <<\h1234, \hF025>>),
       \* 10: LEA R1,#0; STI R1,#2; LDI R2,#1; HALT; a pointer to itself
       FileImage(\h3000, <<\hE200, \hB202, \hA401, \hF025, \h3004>>),
       \* 11: HALT and half a word
       FileImage(\h3000, <<\hF025>>) \o <<\h7F>>,
       \* 12: a file too short to hold an origin
       <<\h30>>,
       \* 13: the reserved opcode
       FileImage(\h3000, <<\hD000>>)
    >>

NoFile == 0
Paths == 0 .. Len(Disk)

\* Further files: three-instruction preludes followed by one probed
\* instruction word. The prelude leaves R1 = 5, R2 = xFFFF and, by its last
\* instruction, COND = Z (AND R3,R3,#0), P (ADD R3,R1,#0) or N (ADD R3,R2,#0).
ProbePrelude(k) ==
    <<\h1265, \h14BF,
      CASE k = 0 -> \h56E0 [] k = 1 -> \h1660 [] OTHER -> \h16A0>>

\* ADD R4,R0,#imm5; LDR R4,R0,#offset6; LEA R4,#PCoffset9; JSR #PCoffset11:
\* every value of each field.
SextProbes ==
    {\h1820 + x : x \in 0 .. 31} \cup {\h6800 + x : x \in 0 .. 63}
        \cup {\hE800 + x : x \in 0 .. 511} \cup {\h4800 + x : x \in 0 .. 2047}

\* ADD and AND over R0..R3, register and immediate forms.
AluProbes ==
    {op * 4096 + dr * 512 + sr1 * 64 + low :
        op \in {OP_ADD, OP_AND}, dr \in 0 .. 3, sr1 \in 0 .. 3,
        low \in (0 .. 3) \cup (32 .. 63)}

\* BR with every nzp and offsets 0, 1, 255, -256, -1.
BrProbes == {nzp * 512 + off : nzp \in 0 .. 7, off \in {0, 1, 255, 256, 511}}

\* LD, LDI, ST, STI and LEA on R1 and R4 with offsets 0, 1, 255, -256, -1;
\* LDR and STR on R1 and R4 with base R2 (xFFFF) and every offset.
AddrProbes ==
    {op * 4096 + r * 512 + off :
        op \in {OP_LD, OP_LDI, OP_ST, OP_STI, OP_LEA}, r \in {1, 4},
        off \in {0, 1, 255, 256, 511}}
      \cup {op * 4096 + r * 512 + 2 * 64 + off :
               op \in {OP_LDR, OP_STR}, r \in {1, 4}, off \in 0 .. 63}

\* A probe's path number: 65536 * (1 + prelude) + the probed word.
ProbePaths ==
    {65536 + w : w \in SextProbes \cup AddrProbes}
        \cup {65536 * (1 + k) + w : k \in 0 .. 2, w \in AluProbes \cup BrProbes}

ProbeFile(p) ==
    FileImage(PC_START, ProbePrelude(p \div 65536 - 1) \o <<p % 65536>>)

\* One more file: LDI R0,#3; OUT; TRAP x00; BRzp #-4; the pointer xFE00: a
\* loop polling the keyboard status until a key is there.
PollFile == FileImage(\h3000, <<\hA003, \hF021, \hF000, \h07FC, \hFE00>>)
PollPath == Len(Disk) + 1

\* The file a path names.
ImageFile(p) ==
    IF p \in 1 .. Len(Disk) THEN Disk[p]
    ELSE IF p = PollPath THEN PollFile
    ELSE ProbeFile(p)

(* ------------------------------- state --------------------------------- *)

VARIABLES
    argv,          \* the image paths of the command line (argv[1..])
    j,             \* main's load loop index
    pc,            \* where main is: args, load, signal, raw, reset, run, exited
    memory,        \* memory[]: the nonzero words by address
    reg,           \* reg[R_COUNT]
    running,       \* main's running flag
    instr,         \* main's instr: the word last fetched
    stdin,         \* the typed keys not yet read
    out,           \* the bytes written to stdout and flushed so far
    tio,           \* the terminal's settings
    original_tio,  \* the saved settings
    handler,       \* whether handle_interrupt is installed for SIGINT
    status,        \* the process's exit status once pc = "exited"
    steps,         \* how many instructions the loop has executed
    acc            \* the indices of memory[] the last instruction accessed

vars == <<argv, j, pc, memory, reg, running, instr, stdin, out, tio,
          original_tio, handler, status, steps, acc>>

(* ------------------------------ memory --------------------------------- *)

EmptyMemory == [a \in {} |-> 0]

\* memory[a]
Word(m, a) == IF a \in DOMAIN m THEN m[a] ELSE 0

\* memory with memory[a] = v
Store(m, a, v) ==
    IF v = 0 THEN [x \in DOMAIN m \ {a} |-> m[x]]
    ELSE [x \in DOMAIN m \cup {a} |-> IF x = a THEN v ELSE m[x]]

\* mem_write one word too far.
mem_write_off(m, address, data) == Store(m, U16(address + 1), data)

mem_write(m, address, data) == Store(m, address, data)

\* select() on standard input with a zero timeout: whether a key waits.
check_key(in) == in # <<>>

\* mem_read without the else branch that clears the status register.
mem_read_stale(m, in, address) ==
    IF address = MR_KBSR /\ check_key(in)
    THEN LET m1 == Store(m, MR_KBSR, Shl(1, 15))
             m2 == Store(m1, MR_KBDR, Head(in))
         IN  [val |-> Word(m2, address), mem |-> m2, in |-> Tail(in)]
    ELSE [val |-> Word(m, address), mem |-> m, in |-> in]

\* mem_read: the word returned, with the memory and the input it leaves.
mem_read(m, in, address) ==
    IF address = MR_KBSR
    THEN IF check_key(in)
         THEN LET m1 == Store(m, MR_KBSR, Shl(1, 15))
                  m2 == Store(m1, MR_KBDR, Head(in))
              IN  [val |-> Word(m2, address), mem |-> m2, in |-> Tail(in)]
         ELSE LET m1 == Store(m, MR_KBSR, 0)
              IN  [val |-> Word(m1, address), mem |-> m1, in |-> in]
    ELSE [val |-> Word(m, address), mem |-> m, in |-> in]

(* --------------------------- image loading ----------------------------- *)

swap16(x) == U16(BitOr(Shl(x, 8), Shr(x, 8)))

\* A uint16_t as fread stores it from two bytes of the file (the host is
\* little-endian: the first byte is the low one).
HostWord(b0, b1) == b0 + 256 * b1

\* The words of the payload that fread stored and the loop swapped.
RECURSIVE Swapped(_, _, _, _)
Swapped(m, payload, origin, len) ==
    IF len = 0 THEN m
    ELSE Swapped(Store(m, origin + len - 1,
                       swap16(HostWord(payload[2 * len - 1], payload[2 * len]))),
                 payload, origin, len - 1)

\* read_image_file: the memories it can leave. A file without a whole
\* origin leaves origin unset, and the second fread then reads nothing
\* whatever origin holds. fread returns the number of whole words read; of
\* a last half word the C library stores the byte read, and the C standard
\* calls the element's value indeterminate: the word keeps its value or has
\* its low byte replaced. The loop does not swap it.
read_image_file(m, file) ==
    IF Len(file) < 2 THEN {m}
    ELSE LET origin   == swap16(HostWord(file[1], file[2]))
             max_read == U16(MEMORY_MAX - origin)
             payload  == SubSeq(file, 3, Len(file))
             avail    == Len(payload) \div 2
             len      == IF avail < max_read THEN avail ELSE max_read
             m1       == Swapped(m, payload, origin, len)
         IN  IF len < max_read /\ Len(payload) % 2 = 1
             THEN LET old == Word(m1, origin + len)
                      part == (old \div 256) * 256 + payload[Len(payload)]
                  IN  {m1, Store(m1, origin + len, part)}
             ELSE {m1}

\* read_image: fopen fails for a path that names no file.
read_image_ok(path) == path # NoFile

(* ------------------------------ terminal ------------------------------- *)

\* The settings with ICANON and ECHO cleared.
RawOf(t) == "raw"

\* "[Usage]: lc3-vm [image-file1] ...\n"
Str_Usage ==
    <<91, 85, 115, 97, 103, 101, 93, 58, 32, 108, 99, 51, 45, 118, 109, 32,
      91, 105, 109, 97, 103, 101, 45, 102, 105, 108, 101, 49, 93, 32, 46,
      46, 46, 10>>

\* "Failed to load image: "; the path (here its number) and "\n" follow.
Str_Failed ==
    <<70, 97, 105, 108, 101, 100, 32, 116, 111, 32, 108, 111, 97, 100, 32,
      105, 109, 97, 103, 101, 58, 32>>

(* ------------------------------ start-up ------------------------------- *)

Init ==
    /\ argv \in UNION {[1 .. n -> Paths] : n \in 0 .. MaxArgs}
    /\ j = 1
    /\ pc = "args"
    /\ memory = EmptyMemory
    /\ reg = [r \in 0 .. R_COUNT - 1 |-> 0]
    /\ running = FALSE
    /\ instr = 0
    /\ stdin = <<>>
    /\ out = <<>>
    /\ tio = "cooked"
    /\ original_tio = "zero"
    /\ handler = FALSE
    /\ status = 0
    /\ steps = 0
    /\ acc = {}

\* argc < 2: the usage line and exit(2).
Usage ==
    /\ pc = "args"
    /\ Len(argv) + 1 < 2
    /\ out' = out \o Str_Usage
    /\ pc' = "exited"
    /\ status' = 2
    /\ UNCHANGED <<argv, j, memory, reg, running, instr, stdin, tio,
                   original_tio, handler, steps, acc>>

CheckArgs ==
    /\ pc = "args"
    /\ ~(Len(argv) + 1 < 2)
    /\ pc' = "load"
    /\ UNCHANGED <<argv, j, memory, reg, running, instr, stdin, out, tio,
                   original_tio, handler, status, steps, acc>>

\* One turn of the load loop with read_image succeeding.
LoadImage ==
    /\ pc = "load"
    /\ j <= Len(argv)
    /\ read_image_ok(argv[j])
    /\ memory' \in read_image_file(memory, ImageFile(argv[j]))
    /\ j' = j + 1
    /\ UNCHANGED <<argv, pc, reg, running, instr, stdin, out, tio,
                   original_tio, handler, status, steps, acc>>

\* One turn of the load loop with read_image failing: the message, exit(1).
LoadFail ==
    /\ pc = "load"
    /\ j <= Len(argv)
    /\ ~read_image_ok(argv[j])
    /\ out' = out \o Str_Failed \o <<argv[j], 10>>
    /\ pc' = "exited"
    /\ status' = 1
    /\ UNCHANGED <<argv, j, memory, reg, running, instr, stdin, tio,
                   original_tio, handler, steps, acc>>

\* signal(SIGINT, handle_interrupt)
InstallHandler ==
    /\ pc = "load"
    /\ j > Len(argv)
    /\ handler' = TRUE
    /\ pc' = "raw"
    /\ UNCHANGED <<argv, j, memory, reg, running, instr, stdin, out, tio,
                   original_tio, status, steps, acc>>

disable_input_buffering ==
    /\ pc = "raw"
    /\ original_tio' = tio
    /\ tio' = RawOf(tio)
    /\ pc' = "reset"
    /\ UNCHANGED <<argv, j, memory, reg, running, instr, stdin, out, handler,
                   status, steps, acc>>

\* The reset without the condition flag.
Reset_nocond ==
    /\ pc = "reset"
    /\ reg' = [reg EXCEPT ![R_PC] = PC_START]
    /\ running' = TRUE
    /\ pc' = "run"
    /\ UNCHANGED <<argv, j, memory, instr, stdin, out, tio, original_tio,
                   handler, status, steps, acc>>

Reset ==
    /\ pc = "reset"
    /\ reg' = [reg EXCEPT ![R_COND] = FL_ZRO, ![R_PC] = PC_START]
    /\ running' = TRUE
    /\ pc' = "run"
    /\ UNCHANGED <<argv, j, memory, instr, stdin, out, tio, original_tio,
                   handler, status, steps, acc>>

(* ------------------------------ decoding ------------------------------- *)

\* update_flags with |= for the negative flag.
update_flags_or(rg, r) ==
    IF rg[r] = 0 THEN [rg EXCEPT ![R_COND] = FL_ZRO]
    ELSE IF Shr(rg[r], 15) # 0
         THEN [rg EXCEPT ![R_COND] = BitOr(rg[R_COND], FL_NEG)]
    ELSE [rg EXCEPT ![R_COND] = FL_POS]

\* update_flags with the sign test shifting one bit too many.
update_flags_shift(rg, r) ==
    IF rg[r] = 0 THEN [rg EXCEPT ![R_COND] = FL_ZRO]
    ELSE IF Shr(rg[r], 16) # 0 THEN [rg EXCEPT ![R_COND] = FL_NEG]
    ELSE [rg EXCEPT ![R_COND] = FL_POS]

update_flags(rg, r) ==
    IF rg[r] = 0 THEN [rg EXCEPT ![R_COND] = FL_ZRO]
    ELSE IF Shr(rg[r], 15) # 0 THEN [rg EXCEPT ![R_COND] = FL_NEG]
    ELSE [rg EXCEPT ![R_COND] = FL_POS]

\* sign_extend with a mask of eight ones.
sign_extend_mask8(x, bit_count) ==
    IF BitAnd(Shr(x, bit_count - 1), 1) # 0
    THEN U16(BitOr(x, Shl(\hFF, bit_count)))
    ELSE x

sign_extend(x, bit_count) ==
    IF BitAnd(Shr(x, bit_count - 1), 1) # 0
    THEN U16(BitOr(x, Shl(\hFFFF, bit_count)))
    ELSE x

OpOf(i) == Shr(i, 12)
Bits11_9(i) == BitAnd(Shr(i, 9), 7)
Bits8_6(i) == BitAnd(Shr(i, 6), 7)
Bits2_0(i) == BitAnd(i, 7)
ImmFlag(i) == BitAnd(Shr(i, 5), 1)
Imm5(i) == sign_extend(BitAnd(i, \h1F), 5)
Offset6(i) == sign_extend(BitAnd(i, \h3F), 6)
PCoffset9(i) == sign_extend(BitAnd(i, \h1FF), 9)
PCoffset11(i) == sign_extend(BitAnd(i, \h7FF), 11)
Bit11(i) == BitAnd(Shr(i, 11), 1)
TrapVect(i) == BitAnd(i, \hFF)

(* ------------------------------ the loop ------------------------------- *)

\* while (running), with the model's bound on the instructions executed.
Looping == pc = "run" /\ running /\ steps < MaxSteps

\* instr = mem_read(reg[R_PC]++)
Fetch == mem_read(memory, stdin, reg[R_PC])

\* The fetch with a program counter wider than 16 bits.
Fetched_nowrap == [reg EXCEPT ![R_PC] = reg[R_PC] + 1]

\* reg[] after the fetch.
Fetched == [reg EXCEPT ![R_PC] = U16(reg[R_PC] + 1)]

\* What an instruction that goes on to the next turn of the loop leaves.
Turn(rg, m, in, o, a) ==
    /\ instr' = Fetch.val
    /\ reg' = rg
    /\ memory' = m
    /\ stdin' = in
    /\ out' = o
    /\ acc' = {reg[R_PC]} \cup a
    /\ steps' = steps + 1
    /\ UNCHANGED <<argv, j, pc, running, tio, original_tio, handler, status>>

\* ADD writing DR before it reads the second operand.
OpADD_alias ==
    /\ Looping
    /\ OpOf(Fetch.val) = OP_ADD
    /\ LET i  == Fetch.val
           r0 == Bits11_9(i)
           r1 == Bits8_6(i)
           r2 == Bits2_0(i)
           cp == [Fetched EXCEPT ![r0] = Fetched[r1]]
           rg == IF ImmFlag(i) # 0
                 THEN [cp EXCEPT ![r0] = U16(cp[r0] + Imm5(i))]
                 ELSE [cp EXCEPT ![r0] = U16(cp[r0] + cp[r2])]
       IN  Turn(update_flags(rg, r0), Fetch.mem, Fetch.in, out, {})

OpADD ==
    /\ Looping
    /\ OpOf(Fetch.val) = OP_ADD
    /\ LET i  == Fetch.val
           r0 == Bits11_9(i)
           r1 == Bits8_6(i)
           r2 == Bits2_0(i)
           rg == IF ImmFlag(i) # 0
                 THEN [Fetched EXCEPT ![r0] = U16(Fetched[r1] + Imm5(i))]
                 ELSE [Fetched EXCEPT ![r0] = U16(Fetched[r1] + Fetched[r2])]
       IN  Turn(update_flags(rg, r0), Fetch.mem, Fetch.in, out, {})

OpAND ==
    /\ Looping
    /\ OpOf(Fetch.val) = OP_AND
    /\ LET i  == Fetch.val
           r0 == Bits11_9(i)
           r1 == Bits8_6(i)
           r2 == Bits2_0(i)
           rg == IF ImmFlag(i) # 0
                 THEN [Fetched EXCEPT ![r0] = BitAnd(Fetched[r1], Imm5(i))]
                 ELSE [Fetched EXCEPT ![r0] = BitAnd(Fetched[r1], Fetched[r2])]
       IN  Turn(update_flags(rg, r0), Fetch.mem, Fetch.in, out, {})

OpNOT ==
    /\ Looping
    /\ OpOf(Fetch.val) = OP_NOT
    /\ LET i  == Fetch.val
           r0 == Bits11_9(i)
           r1 == Bits8_6(i)
           rg == [Fetched EXCEPT ![r0] = BitNot16(Fetched[r1])]
       IN  Turn(update_flags(rg, r0), Fetch.mem, Fetch.in, out, {})

\* BR comparing the condition bits with COND for equality.
OpBR_equal ==
    /\ Looping
    /\ OpOf(Fetch.val) = OP_BR
    /\ LET i         == Fetch.val
           pc_offset == PCoffset9(i)
           cond_flag == Bits11_9(i)
           rg == IF cond_flag = Fetched[R_COND]
                 THEN [Fetched EXCEPT ![R_PC] = U16(Fetched[R_PC] + pc_offset)]
                 ELSE Fetched
       IN  Turn(rg, Fetch.mem, Fetch.in, out, {})

OpBR ==
    /\ Looping
    /\ OpOf(Fetch.val) = OP_BR
    /\ LET i         == Fetch.val
           pc_offset == PCoffset9(i)
           cond_flag == Bits11_9(i)
           rg == IF BitAnd(cond_flag, Fetched[R_COND]) # 0
                 THEN [Fetched EXCEPT ![R_PC] = U16(Fetched[R_PC] + pc_offset)]
                 ELSE Fetched
       IN  Turn(rg, Fetch.mem, Fetch.in, out, {})

OpJMP ==
    /\ Looping
    /\ OpOf(Fetch.val) = OP_JMP
    /\ LET r1 == Bits8_6(Fetch.val)
       IN  Turn([Fetched EXCEPT ![R_PC] = Fetched[r1]],
                Fetch.mem, Fetch.in, out, {})

OpJSR ==
    /\ Looping
    /\ OpOf(Fetch.val) = OP_JSR
    /\ LET i   == Fetch.val
           rg7 == [Fetched EXCEPT ![R_R7] = Fetched[R_PC]]
           rg  == IF Bit11(i) = 0
                  THEN [rg7 EXCEPT ![R_PC] = rg7[Bits8_6(i)]]
                  ELSE [rg7 EXCEPT ![R_PC] = U16(rg7[R_PC] + PCoffset11(i))]
       IN  Turn(rg, Fetch.mem, Fetch.in, out, {})

\* LD adding the offset to the PC of the instruction itself.
OpLD_oldpc ==
    /\ Looping
    /\ OpOf(Fetch.val) = OP_LD
    /\ LET i  == Fetch.val
           r0 == Bits11_9(i)
           a  == U16(reg[R_PC] + PCoffset9(i))
           rd == mem_read(Fetch.mem, Fetch.in, a)
           rg == [Fetched EXCEPT ![r0] = rd.val]
       IN  Turn(update_flags(rg, r0), rd.mem, rd.in, out, {a})

OpLD ==
    /\ Looping
    /\ OpOf(Fetch.val) = OP_LD
    /\ LET i  == Fetch.val
           r0 == Bits11_9(i)
           a  == U16(Fetched[R_PC] + PCoffset9(i))
           rd == mem_read(Fetch.mem, Fetch.in, a)
           rg == [Fetched EXCEPT ![r0] = rd.val]
       IN  Turn(update_flags(rg, r0), rd.mem, rd.in, out, {a})

\* LDI with a read of the status register that waits for a key.
OpLDI_blocking ==
    /\ Looping
    /\ OpOf(Fetch.val) = OP_LDI
    /\ LET i   == Fetch.val
           r0  == Bits11_9(i)
           a   == U16(Fetched[R_PC] + PCoffset9(i))
           rd1 == mem_read(Fetch.mem, Fetch.in, a)
           rd2 == mem_read(rd1.mem, rd1.in, rd1.val)
           rg  == [Fetched EXCEPT ![r0] = rd2.val]
       IN  /\ MR_KBSR \in {a, rd1.val} => Fetch.in # <<>>
           /\ Turn(update_flags(rg, r0), rd2.mem, rd2.in, out, {a, rd1.val})

OpLDI ==
    /\ Looping
    /\ OpOf(Fetch.val) = OP_LDI
    /\ LET i   == Fetch.val
           r0  == Bits11_9(i)
           a   == U16(Fetched[R_PC] + PCoffset9(i))
           rd1 == mem_read(Fetch.mem, Fetch.in, a)
           rd2 == mem_read(rd1.mem, rd1.in, rd1.val)
           rg  == [Fetched EXCEPT ![r0] = rd2.val]
       IN  Turn(update_flags(rg, r0), rd2.mem, rd2.in, out, {a, rd1.val})

OpLDR ==
    /\ Looping
    /\ OpOf(Fetch.val) = OP_LDR
    /\ LET i  == Fetch.val
           r0 == Bits11_9(i)
           r1 == Bits8_6(i)
           a  == U16(Fetched[r1] + Offset6(i))
           rd == mem_read(Fetch.mem, Fetch.in, a)
           rg == [Fetched EXCEPT ![r0] = rd.val]
       IN  Turn(update_flags(rg, r0), rd.mem, rd.in, out, {a})

OpLEA ==
    /\ Looping
    /\ OpOf(Fetch.val) = OP_LEA
    /\ LET i  == Fetch.val
           r0 == Bits11_9(i)
           rg == [Fetched EXCEPT ![r0] = U16(Fetched[R_PC] + PCoffset9(i))]
       IN  Turn(update_flags(rg, r0), Fetch.mem, Fetch.in, out, {})

\* ST setting the flags from its source register, as LD does.
OpST_flags ==
    /\ Looping
    /\ OpOf(Fetch.val) = OP_ST
    /\ LET i  == Fetch.val
           r0 == Bits11_9(i)
           a  == U16(Fetched[R_PC] + PCoffset9(i))
       IN  Turn(update_flags(Fetched, r0), mem_write(Fetch.mem, a, Fetched[r0]),
                Fetch.in, out, {a})

OpST ==
    /\ Looping
    /\ OpOf(Fetch.val) = OP_ST
    /\ LET i  == Fetch.val
           r1 == Bits11_9(i)
           a  == U16(Fetched[R_PC] + PCoffset9(i))
       IN  Turn(Fetched, mem_write(Fetch.mem, a, Fetched[r1]), Fetch.in, out, {a})

\* STI storing into the pointer cell itself, as ST does.
OpSTI_direct ==
    /\ Looping
    /\ OpOf(Fetch.val) = OP_STI
    /\ LET i  == Fetch.val
           r1 == Bits11_9(i)
           a  == U16(Fetched[R_PC] + PCoffset9(i))
       IN  Turn(Fetched, mem_write(Fetch.mem, a, Fetched[r1]), Fetch.in, out, {a})

OpSTI ==
    /\ Looping
    /\ OpOf(Fetch.val) = OP_STI
    /\ LET i  == Fetch.val
           r1 == Bits11_9(i)
           a  == U16(Fetched[R_PC] + PCoffset9(i))
           rd == mem_read(Fetch.mem, Fetch.in, a)
       IN  Turn(Fetched, mem_write(rd.mem, rd.val, Fetched[r1]), rd.in, out,
                {a, rd.val})

OpSTR ==
    /\ Looping
    /\ OpOf(Fetch.val) = OP_STR
    /\ LET i  == Fetch.val
           r1 == Bits11_9(i)
           r2 == Bits8_6(i)
           a  == U16(Fetched[r2] + Offset6(i))
       IN  Turn(Fetched, mem_write(Fetch.mem, a, Fetched[r1]), Fetch.in, out, {a})

(* ------------------------------- traps --------------------------------- *)

\* reg[R_R7] = reg[R_PC]
Trapped == [Fetched EXCEPT ![R_R7] = Fetched[R_PC]]

IsTrap(n) == OpOf(Fetch.val) = OP_TRAP /\ TrapVect(Fetch.val) = n

\* (uint16_t) of a char holding byte b; char is signed or unsigned by the
\* target's ABI.
CharToU16(b, signed_char) == IF signed_char /\ b >= 128 THEN U16(b + \hFF00) ELSE b

\* (char) of a word as putc writes it: one byte.
PutcByte(w) == w % 256

\* puts("HALT")
Str_HALT == <<72, 65, 76, 84, 10>>

\* "Enter a character: "
Str_Prompt ==
    <<69, 110, 116, 101, 114, 32, 97, 32, 99, 104, 97, 114, 97, 99, 116,
      101, 114, 58, 32>>

\* The nonzero words that uint16_t* c walks over from memory + a, inside
\* memory[]: the walk stops at a zero word or leaves the array.
RECURSIVE StringAt(_, _)
StringAt(m, a) ==
    IF a < MEMORY_MAX /\ Word(m, a) # 0
    THEN <<Word(m, a)>> \o StringAt(m, a + 1)
    ELSE <<>>

\* The words that a walk which has left memory[] can read there before it
\* reads a zero: what lies behind the array is not the program's to know.
Beyond == {<<>>, <<\h0158>>}

RECURSIVE PutsBytes(_)
PutsBytes(ws) ==
    IF ws = <<>> THEN <<>>
    ELSE <<PutcByte(Head(ws))>> \o PutsBytes(Tail(ws))

RECURSIVE PutspBytes(_)
PutspBytes(ws) ==
    IF ws = <<>> THEN <<>>
    ELSE LET char1 == BitAnd(Head(ws), \hFF)
             char2 == PutcByte(Shr(Head(ws), 8))
         IN  <<char1>> \o (IF char2 # 0 THEN <<char2>> ELSE <<>>)
                       \o PutspBytes(Tail(ws))

\* The process is killed by a signal it does not handle (abort's SIGABRT,
\* SIGSEGV): nothing restores the terminal.
Killed(rg, o, a, sig) ==
    /\ instr' = Fetch.val
    /\ reg' = rg
    /\ memory' = Fetch.mem
    /\ stdin' = Fetch.in
    /\ out' = o
    /\ acc' = {reg[R_PC]} \cup a
    /\ steps' = steps + 1
    /\ pc' = "exited"
    /\ status' = 128 + sig
    /\ UNCHANGED <<argv, j, running, tio, original_tio, handler>>

SIGABRT == 6
SIGSEGV == 11
SIGINT == 2

\* getchar() waits until a key is there.
TrapGETC ==
    /\ Looping
    /\ IsTrap(TRAP_GETC)
    /\ Fetch.in # <<>>
    /\ LET rg == [Trapped EXCEPT ![R_R0] = Head(Fetch.in)]
       IN  Turn(update_flags(rg, R_R0), Fetch.mem, Tail(Fetch.in), out, {})

TrapOUT ==
    /\ Looping
    /\ IsTrap(TRAP_OUT)
    /\ Turn(Trapped, Fetch.mem, Fetch.in, out \o <<PutcByte(Trapped[R_R0])>>, {})

\* The walk of a string by TRAP_PUTS (packed = FALSE) or TRAP_PUTSP: c
\* stays inside memory[], or runs past its end (undefined: the walk ends at
\* a zero found there, or the process dies with its bytes not yet flushed).
StringWalk(packed) ==
    LET a    == Trapped[R_R0]
        ws   == StringAt(Fetch.mem, a)
        last == a + Len(ws)
        bytes(s) == IF packed THEN PutspBytes(s) ELSE PutsBytes(s)
    IN  \/ /\ last < MEMORY_MAX
           /\ Turn(Trapped, Fetch.mem, Fetch.in, out \o bytes(ws), a .. last)
        \/ /\ last = MEMORY_MAX
           /\ \E g \in Beyond :
                 Turn(Trapped, Fetch.mem, Fetch.in, out \o bytes(ws \o g),
                      a .. last + Len(g))
        \/ /\ last = MEMORY_MAX
           /\ Killed(Trapped, out, a .. last, SIGSEGV)

TrapPUTS ==
    /\ Looping
    /\ IsTrap(TRAP_PUTS)
    /\ StringWalk(FALSE)

TrapIN ==
    /\ Looping
    /\ IsTrap(TRAP_IN)
    /\ Fetch.in # <<>>
    /\ \E signed_char \in BOOLEAN :
          LET c  == Head(Fetch.in)
              rg == [Trapped EXCEPT ![R_R0] = CharToU16(c, signed_char)]
          IN  Turn(update_flags(rg, R_R0), Fetch.mem, Tail(Fetch.in),
                   out \o Str_Prompt \o <<c>>, {})

TrapPUTSP ==
    /\ Looping
    /\ IsTrap(TRAP_PUTSP)
    /\ StringWalk(TRUE)

TrapHALT ==
    /\ Looping
    /\ IsTrap(TRAP_HALT)
    /\ instr' = Fetch.val
    /\ reg' = Trapped
    /\ memory' = Fetch.mem
    /\ stdin' = Fetch.in
    /\ out' = out \o Str_HALT
    /\ acc' = {reg[R_PC]}
    /\ steps' = steps + 1
    /\ running' = FALSE
    /\ UNCHANGED <<argv, j, pc, tio, original_tio, handler, status>>

\* A trap vector the inner switch has no case for.
TrapOther ==
    /\ Looping
    /\ OpOf(Fetch.val) = OP_TRAP
    /\ TrapVect(Fetch.val) \notin
          {TRAP_GETC, TRAP_OUT, TRAP_PUTS, TRAP_IN, TRAP_PUTSP, TRAP_HALT}
    /\ Turn(Trapped, Fetch.mem, Fetch.in, out, {})

\* The reserved opcodes with a break for abort(), as in the draft main.c.
BadOpcode_break ==
    /\ Looping
    /\ OpOf(Fetch.val) \in {OP_RES, OP_RTI}
    /\ Turn(Fetched, Fetch.mem, Fetch.in, out, {})

\* case OP_RES, case OP_RTI, default: abort()
BadOpcode ==
    /\ Looping
    /\ OpOf(Fetch.val) \in {OP_RES, OP_RTI}
    /\ Killed(Fetched, out, {}, SIGABRT)

(* ---------------------------- the way out ------------------------------ *)

restore_input_buffering == tio' = original_tio

\* The loop has ended: restore_input_buffering() and main's end.
Shutdown ==
    /\ pc = "run"
    /\ ~running
    /\ restore_input_buffering
    /\ pc' = "exited"
    /\ status' = 0
    /\ UNCHANGED <<argv, j, memory, reg, running, instr, stdin, out,
                   original_tio, handler, steps, acc>>

\* SIGINT with handle_interrupt installed; exit(-2) is status 254.
handle_interrupt ==
    /\ pc # "exited"
    /\ handler
    /\ restore_input_buffering
    /\ out' = out \o <<10>>
    /\ pc' = "exited"
    /\ status' = U16(-2) % 256
    /\ UNCHANGED <<argv, j, memory, reg, running, instr, stdin,
                   original_tio, handler, steps, acc>>

\* SIGINT before signal() has run: the default action ends the process.
DefaultInterrupt ==
    /\ pc # "exited"
    /\ ~handler
    /\ pc' = "exited"
    /\ status' = 128 + SIGINT
    /\ UNCHANGED <<argv, j, memory, reg, running, instr, stdin, out, tio,
                   original_tio, handler, steps, acc>>

\* The user types a key.
KeyPress ==
    /\ pc # "exited"
    /\ Len(stdin) < MaxKeys
    /\ \E k \in Keys : stdin' = Append(stdin, k)
    /\ UNCHANGED <<argv, j, pc, memory, reg, running, instr, out, tio,
                   original_tio, handler, status, steps, acc>>

Next ==
    \/ Usage
    \/ CheckArgs
    \/ LoadImage
    \/ LoadFail
    \/ InstallHandler
    \/ disable_input_buffering
    \/ Reset
    \/ OpADD
    \/ OpAND
    \/ OpNOT
    \/ OpBR
    \/ OpJMP
    \/ OpJSR
    \/ OpLD
    \/ OpLDI
    \/ OpLDR
    \/ OpLEA
    \/ OpST
    \/ OpSTI
    \/ OpSTR
    \/ TrapGETC
    \/ TrapOUT
    \/ TrapPUTS
    \/ TrapIN
    \/ TrapPUTSP
    \/ TrapHALT
    \/ TrapOther
    \/ BadOpcode
    \/ Shutdown
    \/ handle_interrupt
    \/ DefaultInterrupt
    \/ KeyPress

Spec == Init /\ [][Next]_vars

\* The VM with no key ever typed and no interrupt: the steps of main that
\* need neither (TRAP_GETC and TRAP_IN need a key). A turn of the loop
\* happens once main can take it (main is one sequential thread, always
\* scheduled).
NextQuiet ==
    \/ Usage
    \/ CheckArgs
    \/ LoadImage
    \/ LoadFail
    \/ InstallHandler
    \/ disable_input_buffering
    \/ Reset
    \/ OpADD
    \/ OpAND
    \/ OpNOT
    \/ OpBR
    \/ OpJMP
    \/ OpJSR
    \/ OpLD
    \/ OpLDI
    \/ OpLDR
    \/ OpLEA
    \/ OpST
    \/ OpSTI
    \/ OpSTR
    \/ TrapOUT
    \/ TrapPUTS
    \/ TrapPUTSP
    \/ TrapHALT
    \/ TrapOther
    \/ BadOpcode
    \/ Shutdown

\* One turn of main's loop, or leaving it, with no key needed.
LoopQuiet ==
    \/ OpADD
    \/ OpAND
    \/ OpNOT
    \/ OpBR
    \/ OpJMP
    \/ OpJSR
    \/ OpLD
    \/ OpLDI
    \/ OpLDR
    \/ OpLEA
    \/ OpST
    \/ OpSTI
    \/ OpSTR
    \/ TrapOUT
    \/ TrapPUTS
    \/ TrapPUTSP
    \/ TrapHALT
    \/ TrapOther
    \/ BadOpcode
    \/ Shutdown

InitQuiet ==
    /\ argv \in UNION {[1 .. n -> Paths \cup {PollPath}] : n \in 0 .. MaxArgs}
    /\ j = 1
    /\ pc = "args"
    /\ memory = EmptyMemory
    /\ reg = [r \in 0 .. R_COUNT - 1 |-> 0]
    /\ running = FALSE
    /\ instr = 0
    /\ stdin = <<>>
    /\ out = <<>>
    /\ tio = "cooked"
    /\ original_tio = "zero"
    /\ handler = FALSE
    /\ status = 0
    /\ steps = 0
    /\ acc = {}

SpecQuiet == InitQuiet /\ [][NextQuiet]_vars /\ WF_vars(LoopQuiet)

\* The VM run on one probe file, with no key typed and no interrupt.
InitProbe ==
    /\ argv \in {<<p>> : p \in ProbePaths}
    /\ j = 1
    /\ pc = "args"
    /\ memory = EmptyMemory
    /\ reg = [r \in 0 .. R_COUNT - 1 |-> 0]
    /\ running = FALSE
    /\ instr = 0
    /\ stdin = <<>>
    /\ out = <<>>
    /\ tio = "cooked"
    /\ original_tio = "zero"
    /\ handler = FALSE
    /\ status = 0
    /\ steps = 0
    /\ acc = {}

NextProbe ==
    \/ CheckArgs
    \/ LoadImage
    \/ InstallHandler
    \/ disable_input_buffering
    \/ Reset
    \/ OpADD
    \/ OpAND
    \/ OpBR
    \/ OpJSR
    \/ OpLD
    \/ OpLDI
    \/ OpLDR
    \/ OpLEA
    \/ OpST
    \/ OpSTI
    \/ OpSTR

SpecProbe == InitProbe /\ [][NextProbe]_vars

(* ------------------------- the draft (main.c) -------------------------- *)

\* main.c's sign_extend: under the same test it evaluates
\* x != (0xFFFF << bit_count), a comparison whose result is dropped, and
\* returns x as it came.
draft_sign_extend(x, bit_count) ==
    IF BitAnd(Shr(x, bit_count - 1), 1) # 0
    THEN x
    ELSE x

\* The register write of main.c's OP_ADD on the registers after the fetch.
draft_ADD(rg, i) ==
    LET r0 == BitAnd(Shr(i, 9), 7)
        r1 == BitAnd(Shr(i, 6), 7)
        imm_flag == BitAnd(Shr(i, 5), 1)
    IN  IF imm_flag # 0
        THEN LET imme == draft_sign_extend(BitAnd(i, \h1F), 5)
             IN  [rg EXCEPT ![r0] = U16(rg[r1] + imme)]
        ELSE LET r2 == BitAnd(i, 7)
             IN  [rg EXCEPT ![r0] = U16(rg[r1] + rg[r2])]

\* main.c's OP_BR on the registers after the fetch.
draft_BR(rg, i) ==
    LET pc_offset == draft_sign_extend(BitAnd(i, \h1FF), 9)
        cond_flag == BitAnd(Shr(i, 9), 7)
    IN  IF BitAnd(cond_flag, rg[R_COND]) # 0
        THEN [rg EXCEPT ![R_PC] = U16(rg[R_PC] + pc_offset)]
        ELSE rg

(* ------------------------------ the claims ----------------------------- *)

\* Bits hi..lo of a word, by arithmetic.
Field(i, hi, lo) == (i \div Pow2(lo)) % Pow2(hi - lo + 1)

\* The n-bit two's-complement field x as a 16-bit word, by arithmetic.
Sext(x, n) == IF x >= Pow2(n - 1) THEN x + 65536 - Pow2(n) ELSE x

\* The flag for the signed reading of a word.
SignFlag(v) == IF v = 0 THEN FL_ZRO ELSE IF v >= 32768 THEN FL_NEG ELSE FL_POS

\* The loop's registers have been reset.
ResetDone == pc = "run" \/ running \/ steps > 0

\* The step executes an instruction (fetches, decodes and executes it).
Executes == steps' = steps + 1

\* The incremented program counter of the instruction being executed.
NextPC == (reg[R_PC] + 1) % 65536

\* C1: from reset onward COND holds exactly one of the flag values N (4),
\* Z (2), P (1): never 0, never two bits.
C1_CondOneFlag == ResetDone => reg[R_COND] \in {4, 2, 1}

\* C1's case: instructions have run and left each flag; here N.
C1_Witness == pc = "run" /\ steps > 2 /\ reg[R_COND] = 4

\* The opcodes that write a destination register and set the flags.
WritesDR == {OP_ADD, OP_AND, OP_NOT, OP_LD, OP_LDI, OP_LDR, OP_LEA}

\* C2: after ADD, AND, NOT, LD, LDI, LDR or LEA, COND is Z if the final
\* R[DR] is 0, N if its bit 15 is set, P otherwise.
C2_FlagsFollowDR ==
    (steps > 0 /\ OpOf(instr) \in WritesDR)
        => reg[R_COND] = SignFlag(reg[Field(instr, 11, 9)])

\* C2's case: an LDI has loaded a negative word.
C2_Witness ==
    /\ steps > 0
    /\ OpOf(instr) = OP_LDI
    /\ reg[Field(instr, 11, 9)] >= 32768
    /\ reg[R_COND] = FL_NEG

\* C3: an executed instruction that does not stop the VM leaves
\* PC = PC_before + 1 + D mod 2^16: D = 0 for ADD, AND, NOT, LD, LDI, LDR,
\* LEA, ST, STI, STR, TRAP and a BR not taken, D = sext(PCoffset9) for a BR
\* taken, and PC = R[BaseR] for JMP; a fetch at xFFFF wraps PC to 0.
C3_NextPC ==
    [][(Executes /\ pc' = "run" /\ running') =>
         LET i == instr'
         IN  CASE OpOf(i) \in WritesDR \cup {OP_ST, OP_STI, OP_STR, OP_TRAP}
                    -> reg'[R_PC] = NextPC
               [] OpOf(i) = OP_BR
                    -> reg'[R_PC] =
                         IF BitAnd(Field(i, 11, 9), reg[R_COND]) # 0
                         THEN (NextPC + Sext(Field(i, 8, 0), 9)) % 65536
                         ELSE NextPC
               [] OpOf(i) = OP_JMP
                    -> reg'[R_PC] = reg[Field(i, 8, 6)]
               [] OTHER -> TRUE]_vars

\* C3's case: a BR fetched at xFFFF and not taken has left PC = 0.
C3_Witness ==
    /\ pc = "run"
    /\ steps > 0
    /\ acc = {65535}
    /\ OpOf(instr) = OP_BR
    /\ reg[R_PC] = 0

\* The address a store instruction computes, in the state before it.
StoreTarget(i) ==
    LET pa == (NextPC + Sext(Field(i, 8, 0), 9)) % 65536
    IN  CASE OpOf(i) = OP_ST  -> pa
          [] OpOf(i) = OP_STR -> (reg[Field(i, 8, 6)] + Sext(Field(i, 5, 0), 6)) % 65536
          [] OpOf(i) = OP_STI -> IF pa = MR_KBSR
                                 THEN (IF stdin # <<>> THEN 32768 ELSE 0)
                                 ELSE Word(memory, pa)

\* C4: an instruction or trap changes a memory word at an address other
\* than xFE00 and xFE02 only if it is ST, STI or STR and the address is its
\* computed target.
C4_MemoryFrame ==
    [][Executes =>
         \A a \in (DOMAIN memory \cup DOMAIN memory') \ {MR_KBSR, MR_KBDR} :
            Word(memory', a) # Word(memory, a)
               => /\ OpOf(instr') \in {OP_ST, OP_STI, OP_STR}
                  /\ a = StoreTarget(instr')]_vars

\* C4's case: an STI has stored through its pointer cell.
C4_Witness ==
    /\ steps > 0
    /\ OpOf(instr) = OP_STI
    /\ Word(memory, 12298) = 32769

\* The address whose word a load instruction puts in DR, in the state
\* before it (for LDI, with a pointer cell that is not the status register).
LoadSource(i) ==
    LET pa == (NextPC + Sext(Field(i, 8, 0), 9)) % 65536
    IN  CASE OpOf(i) = OP_LD  -> pa
          [] OpOf(i) = OP_LDR -> (reg[Field(i, 8, 6)] + Sext(Field(i, 5, 0), 6)) % 65536
          [] OpOf(i) = OP_LDI -> Word(memory, pa)

\* A load whose one device access is the read of address a.
LoadsFrom(a) ==
    /\ Executes
    /\ OpOf(instr') \in {OP_LD, OP_LDR, OP_LDI}
    /\ reg[R_PC] # MR_KBSR
    /\ OpOf(instr') = OP_LDI
          => (NextPC + Sext(Field(instr', 8, 0), 9)) % 65536 # MR_KBSR
    /\ LoadSource(instr') = a

\* C5: a read of xFE00 returns 0 when no key is pending and x8000 when one
\* is; the key is then consumed and the next read of xFE02 returns it. A
\* read of xFE02 neither polls nor consumes a key.
C5_Keyboard ==
    [][/\ LoadsFrom(MR_KBSR) =>
            LET got == reg'[Field(instr', 11, 9)]
            IN  IF stdin = <<>>
                THEN got = 0 /\ stdin' = stdin
                ELSE /\ got = 32768
                     /\ stdin' = Tail(stdin)
                     /\ LET next == mem_read(memory', stdin', MR_KBDR)
                        IN  /\ next.val = Head(stdin)
                            /\ next.in = stdin'
                            /\ next.mem = memory'
       /\ LoadsFrom(MR_KBDR) =>
            /\ reg'[Field(instr', 11, 9)] = Word(memory, MR_KBDR)
            /\ stdin' = stdin
            /\ memory' = memory]_vars

\* C5's case: with a key pending, a load of xFE00 returned x8000 and the
\* next load of xFE02 returned the key.
C5_Witness ==
    /\ steps = 3
    /\ OpOf(instr) = OP_LDR
    /\ reg[1] = MR_KBSR
    /\ reg[2] = 32768
    /\ reg[3] = 65
    /\ stdin = <<>>

\* C6: every memory access of an instruction or trap, the string walks of
\* PUTS and PUTSP included, uses an address in 0..xFFFF.
C6_AccessInBounds == \A a \in acc : a \in 0 .. 65535

\* C7: once raw mode has been entered, every way the VM stops leaves the
\* terminal with its saved settings restored.
C7_TerminalRestored ==
    (pc = "exited" /\ original_tio = "cooked") => tio = "cooked"

C9_HaltOnlyWayOut ==
    [][/\ (Executes /\ instr' = 61477) =>
            /\ out' = out \o <<72, 65, 76, 84, 10>>
            /\ ~running'
            /\ pc' = "run"
       /\ (pc = "run" /\ ~running) =>
            /\ steps' = steps
            /\ pc' = "exited" => status' \in {0, 254}
       /\ (pc = "run" /\ pc' = "exited") =>
            \/ ~running /\ status' = 0
            \/ Executes /\ OpOf(instr') \in {8, 13}
            \/ status' = 254]_vars

\* C10: loading an image with origin o and a payload of m bytes writes the
\* big-endian word k of the payload to memory[o + k] for every
\* k < min(m div 2, 65536 - o), for every o including 0, and leaves every
\* other word unchanged (a trailing odd byte is dropped).
C10_ImageLoaded ==
    [][(pc = "load" /\ j' = j + 1 /\ Len(Disk[argv[j]]) >= 2) =>
         LET file == Disk[argv[j]]
             o    == file[1] * 256 + file[2]
             m    == Len(file) - 2
             n    == IF m \div 2 < 65536 - o THEN m \div 2 ELSE 65536 - o
         IN  /\ \A k \in 0 .. n - 1 :
                  Word(memory', o + k) = file[3 + 2 * k] * 256 + file[4 + 2 * k]
             /\ \A a \in (DOMAIN memory \cup DOMAIN memory') \ (o .. o + n - 1) :
                  Word(memory', a) = Word(memory, a)]_vars

\* An image argument that cannot be opened, or whose file is too short to
\* contain an origin word.
Unloadable(p) == p = NoFile \/ Len(Disk[p]) < 2

\* The process was ended by an interrupt.
Interrupted == pc = "exited" /\ status \in {128 + SIGINT, 254}

\* C11: with an image argument that cannot be opened or cannot be read the
\* VM executes no instruction and exits with status 1 after the failure
\* message for that path; with no image argument it executes no instruction
\* and exits with status 2 (an interrupt apart).
C11_LoadFailureExits ==
    /\ (\E i \in DOMAIN argv : Unloadable(argv[i])) =>
          /\ steps = 0
          /\ pc # "run"
          /\ (pc = "exited" /\ ~Interrupted) =>
                /\ status = 1
                /\ \E i \in DOMAIN argv :
                      /\ Unloadable(argv[i])
                      /\ out = Str_Failed \o <<argv[i], 10>>
    /\ Len(argv) = 0 =>
          /\ steps = 0
          /\ pc # "run"
          /\ (pc = "exited" /\ ~Interrupted) => status = 2

\* The number of words an image file holds for its origin: its payload's
\* whole words, cut at the end of memory.
ImageWords(file) ==
    IF Len(file) < 2 THEN 0
    ELSE LET o == file[1] * 256 + file[2]
             m == (Len(file) - 2) \div 2
         IN  IF m < 65536 - o THEN m ELSE 65536 - o

\* The addresses an image file covers.
Covers(file) ==
    IF Len(file) < 2 THEN {}
    ELSE LET o == file[1] * 256 + file[2] IN o .. o + ImageWords(file) - 1

\* The word an image file holds for an address it covers.
ImageWord(file, a) ==
    LET k == a - (file[1] * 256 + file[2])
    IN  file[3 + 2 * k] * 256 + file[4 + 2 * k]

\* The word at address a after the first n image arguments: that of the
\* last image covering a, 0 when none does.
RECURSIVE LastWritten(_, _)
LastWritten(a, n) ==
    IF n = 0 THEN 0
    ELSE IF a \in Covers(Disk[argv[n]]) THEN ImageWord(Disk[argv[n]], a)
    ELSE LastWritten(a, n - 1)

\* C12: the images are loaded in command-line order before any instruction
\* runs: after the first n of them every memory word holds the value of the
\* last image covering its address, and 0 when none covers it.
C12_LastImageWins ==
    (steps = 0 /\ pc \in {"load", "raw", "reset", "run"}
       /\ \A i \in 1 .. j - 1 : argv[i] # NoFile) =>
        \A a \in DOMAIN memory \cup UNION {Covers(Disk[argv[i]]) : i \in 1 .. j - 1} :
            Word(memory, a) = LastWritten(a, j - 1)

\* C13: when the first instruction is fetched PC = x3000, COND = Z,
\* R0..R7 = 0 and the running flag is set, whatever images were loaded;
\* loading changes no register.
C13_ResetState ==
    /\ steps = 0 => \A r \in R_R0 .. R_R7 : reg[r] = 0
    /\ (pc = "run" /\ steps = 0) =>
          /\ reg[R_PC] = 12288
          /\ reg[R_COND] = 2
          /\ running

\* C13's case: two images with origins other than x3000 have been loaded
\* and the first fetch is next.
C13_Witness ==
    /\ pc = "run"
    /\ steps = 0
    /\ argv = <<9, 8>>
    /\ Word(memory, 65535) = 65
    /\ reg[R_PC] = 12288

\* C14: after TRAP GETC (x20) or TRAP IN (x23), R0 is the byte read from
\* the host zero-extended (a value in 0..xFF), COND is that of R0 and R7 is
\* the incremented PC.
C14_CharInR0 ==
    [][(Executes /\ OpOf(instr') = OP_TRAP /\ Field(instr', 7, 0) \in {32, 35}) =>
         /\ reg'[R_R0] = Head(stdin)
         /\ reg'[R_R0] \in 0 .. 255
         /\ reg'[R_COND] = SignFlag(reg'[R_R0])
         /\ reg'[R_R7] = NextPC]_vars

\* The pointer cell of the STI or LDI being executed, in the state before it.
PointerCell(i) == (NextPC + Sext(Field(i, 8, 0), 9)) % 65536

\* What an LDI through the pointer cell p loads in the state a step leaves.
LdiLoads(p) ==
    LET rd1 == mem_read(memory', stdin', p)
    IN  mem_read(rd1.mem, rd1.in, rd1.val).val

\* C15 as stated: an STI of v through a pointer cell, followed by an LDI
\* through the same cell, loads v, for every content of the pointer cell.
C15_RoundTripAll ==
    [][(Executes /\ OpOf(instr') = OP_STI /\ pc' = "run") =>
         LdiLoads(PointerCell(instr')) = reg[Field(instr', 11, 9)]]_vars

\* C15, amended: an STI of v through a pointer cell, followed by an LDI
\* through the same cell, loads v, for every v, when the pointer cell is
\* not the keyboard status register and its content (the target) is neither
\* xFE00 nor the pointer cell's own address. The second conjunct is the
\* executed pair: an LDI right after an STI, through the same cell, whose
\* target is a third address the STI accessed.
C15_RoundTrip ==
    [][/\ (/\ Executes
           /\ OpOf(instr') = OP_STI
           /\ pc' = "run"
           /\ PointerCell(instr') # MR_KBSR
           /\ Word(memory, PointerCell(instr')) \notin {MR_KBSR, PointerCell(instr')})
          => LdiLoads(PointerCell(instr')) = reg[Field(instr', 11, 9)]
       /\ (/\ Executes
           /\ steps > 0
           /\ OpOf(instr) = OP_STI
           /\ OpOf(instr') = OP_LDI
           /\ PointerCell(instr') = (reg[R_PC] + Sext(Field(instr, 8, 0), 9)) % 65536
           /\ PointerCell(instr') # MR_KBSR
           /\ Word(memory, PointerCell(instr')) \in
                 acc \ {MR_KBSR, PointerCell(instr'), (reg[R_PC] + 65535) % 65536})
          => reg'[Field(instr', 11, 9)] = reg[Field(instr, 11, 9)]]_vars

\* C15's case: an LDI has followed an STI of x8001 through the pointer cell
\* x3008 and loaded x8001 from the target x300A.
C15_Witness ==
    /\ steps = 3
    /\ OpOf(instr) = OP_LDI
    /\ Word(memory, 12296) = 12298
    /\ Word(memory, 12298) = 32769
    /\ reg[1] = 32769
    /\ reg[2] = 32769

\* Bit b of a word.
Bit(w, b) == (w \div Pow2(b)) % 2

\* The probed field's instruction has just been executed.
Probed == steps = 4 /\ instr = argv[1] % 65536 /\ instr \in SextProbes

\* C16: for n in {5, 6, 9, 11} and every x < 2^n, sign_extend(x, n) is a
\* 16-bit word whose low n bits are x and whose bits 15..n all equal bit
\* n-1 of x; it is the word the instruction with that field uses.
C16_SignExtend ==
    /\ \A n \in {5, 6, 9, 11} :
          LET x == instr % Pow2(n)
              r == sign_extend(x, n)
          IN  /\ r \in 0 .. 65535
              /\ r % Pow2(n) = x
              /\ \A b \in n .. 15 : Bit(r, b) = Bit(x, n - 1)
    /\ (Probed /\ OpOf(instr) = OP_ADD) =>
          reg[4] = sign_extend(instr % 32, 5)
    /\ (Probed /\ OpOf(instr) = OP_LDR) =>
          acc = {12291, sign_extend(instr % 64, 6)}
    /\ (Probed /\ OpOf(instr) = OP_LEA) =>
          reg[4] = (12292 + sign_extend(instr % 512, 9)) % 65536
    /\ (Probed /\ OpOf(instr) = OP_JSR) =>
          reg[R_PC] = (12292 + sign_extend(instr % 2048, 11)) % 65536

\* C16's case: LEA R4,#-256 has been executed: the field x100 extended to
\* xFF00.
C16_Witness ==
    /\ Probed
    /\ instr = 59648
    /\ reg[4] = 12036
    /\ sign_extend(instr % 512, 9) = 65280

\* The instruction to execute next is TRAP GETC or TRAP IN and no key is
\* there: getchar() waits.
WaitsForKey ==
    /\ Looping
    /\ Fetch.in = <<>>
    /\ OpOf(Fetch.val) = OP_TRAP
    /\ Field(Fetch.val, 7, 0) \in {32, 35}

\* C17: with no key ever pending the loop keeps executing, reads of xFE00
\* included, until the VM exits, or waits in TRAP GETC or TRAP IN, the only
\* operations that wait; it never stops anywhere else (within MaxSteps
\* instructions, the horizon of the model).
C17_PollNeverWaits ==
    (pc = "run") ~> (pc = "exited" \/ steps = MaxSteps \/ WaitsForKey)

\* C17's case: the polling loop is in its second turn: LDI has read xFE00
\* again, with no key, and got 0.
C17_Witness ==
    /\ argv = <<PollPath>>
    /\ steps = 5
    /\ instr = 40963
    /\ MR_KBSR \in acc
    /\ reg[R_R0] = 0
    /\ stdin = <<>>

\* The bitwise AND of bits k..0 of two words, bit by bit.
RECURSIVE AndBits(_, _, _)
AndBits(a, b, k) ==
    IF k < 0 THEN 0
    ELSE Bit(a, k) * Bit(b, k) * Pow2(k) + AndBits(a, b, k - 1)

\* C18: ADD and AND write R[DR] = R[SR1] op R[SR2] (bit 5 clear) or
\* R[SR1] op sext(imm5) (bit 5 set), op being addition mod 2^16 or bitwise
\* AND, for every DR, SR1, SR2, equal ones included, set COND from the
\* result and change no other register; ADD Rx,Rx,#0 leaves Rx unchanged
\* and sets COND from it.
C18_AddAnd ==
    [][(Executes /\ OpOf(instr') \in {OP_ADD, OP_AND}) =>
         LET i  == instr'
             dr == Field(i, 11, 9)
             a  == reg[Field(i, 8, 6)]
             b  == IF Field(i, 5, 5) = 0 THEN reg[Field(i, 2, 0)]
                   ELSE Sext(Field(i, 4, 0), 5)
             v  == IF OpOf(i) = OP_ADD THEN (a + b) % 65536
                   ELSE AndBits(a, b, 15)
         IN  /\ reg'[dr] = v
             /\ reg'[R_COND] = SignFlag(v)
             /\ \A r \in (R_R0 .. R_R7) \ {dr} : reg'[r] = reg[r]
             /\ (OpOf(i) = OP_ADD /\ Field(i, 5, 0) = 32 /\ dr = Field(i, 8, 6))
                   => reg'[dr] = reg[dr] /\ reg'[R_COND] = SignFlag(reg[dr])]_vars

\* C18's case: ADD R1,R1,R1 has doubled R1 = 5.
C18_Witness ==
    /\ steps = 4
    /\ instr = 4673
    /\ reg[1] = 10
    /\ reg[R_COND] = FL_POS

\* C19: BR adds sext(PCoffset9) to the incremented PC exactly when its nzp
\* bits and COND have a bit in common: never with nzp = 000, always with
\* nzp = 111; it changes no other register.
C19_Branch ==
    [][(Executes /\ OpOf(instr') = OP_BR) =>
         LET i      == instr'
             nzp    == Field(i, 11, 9)
             target == (NextPC + Sext(Field(i, 8, 0), 9)) % 65536
         IN  /\ reg'[R_PC] = IF AndBits(nzp, reg[R_COND], 2) # 0
                             THEN target ELSE NextPC
             /\ nzp = 0 => reg'[R_PC] = NextPC
             /\ nzp = 7 => reg'[R_PC] = target
             /\ \A r \in R_R0 .. R_R7 : reg'[r] = reg[r]
             /\ reg'[R_COND] = reg[R_COND]]_vars

\* C19's case: BRnzp #-1 has been taken with COND = N.
C19_Witness ==
    /\ steps = 4
    /\ instr = 4095
    /\ reg[R_COND] = FL_NEG
    /\ reg[R_PC] = 12291

\* C20: JSR leaves R7 = the incremented PC and, with bit 11 set,
\* PC = incremented PC + sext(PCoffset11) mod 2^16; with bit 11 clear,
\* PC = the value R[BaseR] held before the instruction, for every BaseR,
\* R7 included.
C20_JsrLinks ==
    [][(Executes /\ OpOf(instr') = OP_JSR) =>
         LET i == instr'
         IN  /\ reg'[R_R7] = NextPC
             /\ reg'[R_PC] =
                  IF Field(i, 11, 11) = 1
                  THEN (NextPC + Sext(Field(i, 10, 0), 11)) % 65536
                  ELSE reg[Field(i, 8, 6)]]_vars

\* The registers among R0..R7 that the instruction word i may change.
MayChange(i) ==
    CASE OpOf(i) \in WritesDR -> {Field(i, 11, 9)}
      [] OpOf(i) = OP_JSR -> {R_R7}
      [] OpOf(i) = OP_TRAP ->
            IF Field(i, 7, 0) \in {32, 35} THEN {R_R0, R_R7} ELSE {R_R7}
      [] OTHER -> {}

\* The instruction words that leave COND alone: BR, JMP, JSR, ST, STI, STR
\* and the traps OUT, PUTS, PUTSP, HALT.
KeepsCond(i) ==
    \/ OpOf(i) \in {OP_BR, OP_JMP, OP_JSR, OP_ST, OP_STI, OP_STR}
    \/ OpOf(i) = OP_TRAP /\ Field(i, 7, 0) \in {33, 34, 36, 37}

\* C21: an instruction changes only the registers its semantics name: BR,
\* JMP, JSR, ST, STI, STR and the traps OUT, PUTS, PUTSP, HALT leave COND
\* unchanged; among R0..R7 it changes at most its DR (ADD, AND, NOT, LD,
\* LDI, LDR, LEA), R7 (JSR, TRAP) and R0 (GETC, IN); the register fields of
\* every instruction select one of R0..R7, never PC or COND.
C21_RegisterFrame ==
    [][Executes =>
         LET i == instr'
         IN  /\ KeepsCond(i) => reg'[R_COND] = reg[R_COND]
             /\ \A r \in (R_R0 .. R_R7) \ MayChange(i) : reg'[r] = reg[r]
             /\ {Bits11_9(i), Bits8_6(i), Bits2_0(i)} \subseteq R_R0 .. R_R7
             /\ DOMAIN reg' = 0 .. R_COUNT - 1]_vars

\* C21's case: a JSR has been executed with COND = P: R7 holds the return
\* address and COND is still P.
C21_Witness ==
    /\ steps > 0
    /\ OpOf(instr) = OP_JSR
    /\ reg[R_R7] = 12296
    /\ reg[R_COND] = FL_POS

\* The address LDR or STR computes, in the state before it.
BaseCell(i) == (reg[Field(i, 8, 6)] + Sext(Field(i, 5, 0), 6)) % 65536

\* C22: LD, LDI, LEA, ST and STI compute their address from the incremented
\* PC, (PC_before + 1 + sext(PCoffset9)) mod 2^16, and LDR and STR compute
\* (R[BaseR] + sext(offset6)) mod 2^16; LD and LDR read and ST and STR write
\* exactly that address, LEA loads the address itself, and LDI and STI go
\* through the cell at that address.
C22_Addresses ==
    [][Executes =>
         LET i  == instr'
             dr == Field(i, 11, 9)
             pa == PointerCell(i)
             ba == BaseCell(i)
         IN  /\ OpOf(i) = OP_LD =>
                   /\ acc' = {reg[R_PC], pa}
                   /\ pa # MR_KBSR => reg'[dr] = Word(memory, pa)
             /\ OpOf(i) = OP_LDR =>
                   /\ acc' = {reg[R_PC], ba}
                   /\ ba # MR_KBSR => reg'[dr] = Word(memory, ba)
             /\ OpOf(i) = OP_LEA =>
                   /\ acc' = {reg[R_PC]}
                   /\ reg'[dr] = pa
             /\ OpOf(i) = OP_ST =>
                   /\ acc' = {reg[R_PC], pa}
                   /\ Word(memory', pa) = reg[dr]
             /\ OpOf(i) = OP_STR =>
                   /\ acc' = {reg[R_PC], ba}
                   /\ Word(memory', ba) = reg[dr]
             /\ (OpOf(i) \in {OP_LDI, OP_STI} /\ pa # MR_KBSR) =>
                   acc' = {reg[R_PC], pa, Word(memory, pa)}]_vars

\* C22's case: LD R4,#-1 at x3003 has loaded its own word, the one at
\* x3004 - 1.
C22_Witness ==
    /\ steps = 4
    /\ instr = 10751
    /\ acc = {12291}
    /\ reg[4] = 10751

\* The consecutive words from address a up to the first zero word, the
\* addresses taken modulo 2^16.
RECURSIVE WordsFrom(_, _)
WordsFrom(m, a) ==
    IF Word(m, a) = 0 THEN <<>>
    ELSE <<Word(m, a)>> \o WordsFrom(m, (a + 1) % 65536)

\* One character per word: its low 8 bits.
RECURSIVE LowBytes(_)
LowBytes(ws) ==
    IF ws = <<>> THEN <<>>
    ELSE <<Head(ws) % 256>> \o LowBytes(Tail(ws))

\* Per word its low byte, then its high byte when that is nonzero.
RECURSIVE PackedBytes(_)
PackedBytes(ws) ==
    IF ws = <<>> THEN <<>>
    ELSE <<Head(ws) % 256>>
            \o (IF Head(ws) \div 256 # 0 THEN <<Head(ws) \div 256>> ELSE <<>>)
            \o PackedBytes(Tail(ws))

\* C23: TRAP PUTS emits one character (the low 8 bits) per word for the
\* consecutive words from address R0 up to the first zero word; TRAP PUTSP
\* emits per such word its low byte and then its high byte if nonzero; both
\* emit nothing if mem[R0] = 0, change no register but R7 (and the
\* incremented PC) and no memory, and execution goes on.
C23_Strings ==
    [][(Executes /\ OpOf(instr') = OP_TRAP /\ Field(instr', 7, 0) \in {34, 36}) =>
         LET ws == WordsFrom(memory, reg[R_R0])
         IN  /\ out' = out \o (IF Field(instr', 7, 0) = 34
                               THEN LowBytes(ws) ELSE PackedBytes(ws))
             /\ reg' = [reg EXCEPT ![R_PC] = NextPC, ![R_R7] = NextPC]
             /\ memory' = memory
             /\ pc' = "run"]_vars

\* C24: main.c's sign_extend returns the same word as lc3.c's for every
\* field value x < 2^n, n in {5, 6, 9, 11}, and main.c's ADD and BR leave
\* the same DR and the same PC as lc3.c's.
C24_SameSignExtend ==
    [][Executes =>
         LET i == instr'
         IN  /\ \A n \in {5, 6, 9, 11} :
                   draft_sign_extend(i % Pow2(n), n) = sign_extend(i % Pow2(n), n)
             /\ OpOf(i) = OP_ADD =>
                   draft_ADD(Fetched, i)[Field(i, 11, 9)] = reg'[Field(i, 11, 9)]
             /\ OpOf(i) = OP_BR =>
                   draft_BR(Fetched, i)[R_PC] = reg'[R_PC]]_vars

\* C25: whenever the interrupt handler runs, the settings it writes to the
\* terminal are the ones captured when raw mode was entered: it never
\* writes settings that were not captured.
C25_HandlerRestoresCaptured ==
    (pc = "exited" /\ handler /\ status = 254) =>
        /\ original_tio = "cooked"
        /\ tio = original_tio

====
